---- MODULE Spec2Model ----
(***************************************************************************)
(* A Chord-style distributed hash table: the node (dht.Node), its          *)
(* maintenance loop and the HTTP transport that serves it.                 *)
(*                                                                         *)
(* Each node is a process with an address; its ring id is the hash of the  *)
(* address.  The ring has 2^M slots.  The source fixes M = 16; the model   *)
(* keeps every formula in terms of M and checks a small ring.              *)
(***************************************************************************)
EXTENDS Integers, Sequences, FiniteSets, TLC

\* Ring bits (const M in the source is 16; the model checks a small ring).
M == 3

\* 1 << M
ID_SPACE_SIZE == 2 ^ M

\* Longest chain of nested storage forwards that answers before the entry
\* node's forwarding client gives up (its 5 s timeout).
MaxHops == 4

\* Number of membership events (bootstrap, join, leave, crash, recover) in one
\* behaviour.
MaxEvents == 2

\* The addresses (host:port) of the processes that can exist.
Addresses == {"a", "b", "c"}

\* The addresses a peer can name in the body of a predecessor RPC: those of
\* the processes, the empty address, and the address of a host outside the
\* ring whose id equals the id of process a.
PeerAddresses == Addresses \cup {"", "e"}

\* The storage keys clients use, and the values they store.
Keys == {"k1", "k2", "k3"}
Values == {"v1", "v2"}

\* SHA-1 of a string, as the integer the source reduces modulo the ring size.
\* The digest is fixed per string; the table lists the strings of the model.
Digest(s) ==
    CASE s = "a"  -> 1
      [] s = "b"  -> 4
      [] s = "c"  -> 6
      [] s = "e"  -> 17
      [] s = "k1" -> 3
      [] s = "k2" -> 6
      [] s = "k3" -> 7
      [] OTHER    -> 5

\* helper.go KeyToRingId: hash of the string modulo the ring size.
KeyToRingId(key, mod) == Digest(key) % mod

----------------------------------------------------------------------------
\* Interval arithmetic on the ring.

\* (a, b) as it would be without the case a = b: empty when a = b.
InIntervalOpenNoEqualCase(x, a, b) ==
    IF a < b THEN x > a /\ x < b
    ELSE IF a = b THEN FALSE
    ELSE x > a \/ x < b

\* (a, b)
InIntervalOpen(x, a, b) ==
    IF a < b THEN x > a /\ x < b
    ELSE IF a = b THEN x # a
    ELSE x > a \/ x < b

\* [a, b)
InIntervalLeftInclusive(x, a, b) ==
    IF a < b THEN x >= a /\ x < b
    ELSE IF a = b THEN TRUE
    ELSE x >= a \/ x < b

\* (a, b]
InIntervalRightInclusive(x, a, b) ==
    IF a < b THEN x > a /\ x <= b
    ELSE IF a = b THEN TRUE
    ELSE x > a \/ x <= b

----------------------------------------------------------------------------
\* Node references.

\* node{}: the zero value, "no node".
EmptyNode == [id |-> 0, address |-> ""]

\* The node literal as it would be without the hash of the address: the id
\* stays at the zero value.
MkNodeZeroId(addr) == [id |-> 0, address |-> addr]

\* node{id: KeyToRingId(address), address: address}
MkNode(addr) == [id |-> KeyToRingId(addr, ID_SPACE_SIZE), address |-> addr]

FingerIdx == 0 .. (M - 1)

\* (self.id + (1 << i)) % ID_SPACE_SIZE
FingerStart(selfId, i) == (selfId + 2 ^ i) % ID_SPACE_SIZE

NoValue == "none"

VARIABLES
    nodes,            \* the addresses of the processes that were started
    successor,        \* Node.successor
    predecessor,      \* Node.predecessor
    finger,           \* Node.finger, index 0..M-1 -> [start, node]
    data,             \* Node.data, key -> value (NoValue: no entry)
    inactive,         \* HTTPTransport.inactive
    mpc,              \* where the maintenance goroutine of a node stands
    nextFingerIndex,  \* RunMaintenance's nextFingerIndex
    cands,            \* Stabilize: the candidates of the round in progress
    ci,               \* Stabilize: index of the next candidate to probe
    liveCand,         \* Stabilize: liveCandidateExists
    req,              \* the client's HTTP request in flight, then its response
    acked,            \* per key, the value of the last PUT answered 200
    script,           \* the methods of the requests the client will send, in order
    nreq,             \* client storage requests issued so far
    nevents,          \* membership events so far
    visited,          \* history: the nodes the storage request has been at, in order
    atCrash,          \* history: per node, its state when it was last crashed
    call,             \* the last direct call of a helper function: arguments and result
    mu,               \* Node.mu: per node, the handler that holds the write side
    thr               \* the handler goroutines that run statement by statement

nodeVars  == <<successor, predecessor, finger, data, inactive>>
maintVars == <<mpc, nextFingerIndex, cands, ci, liveCand>>
clientVars == <<req, acked, script, nreq>>
vars == <<nodes, successor, predecessor, finger, data, inactive,
          mpc, nextFingerIndex, cands, ci, liveCand, req, acked, script, nreq, nevents,
          visited, atCrash, call, mu, thr>>

----------------------------------------------------------------------------
\* Node: identity, construction and the setters.

\* Node.Id(): the id given at Create, never reassigned.
SelfId(n) == KeyToRingId(n, ID_SPACE_SIZE)

SelfNode(n) == [id |-> SelfId(n), address |-> n]

\* Create: the finger table of a new node, every entry targets self.
CreateFinger(n) ==
    [i \in FingerIdx |-> [start |-> FingerStart(SelfId(n), i), node |-> SelfNode(n)]]

\* SetPredecessor as it would be without the test on the hashed address:
\* every non-empty address is installed.
SetPredecessorUnguarded(n, cur, addr) ==
    IF addr = "" THEN EmptyNode ELSE MkNode(addr)

\* Node.SetPredecessor: the predecessor of n after SetPredecessor(addr) when
\* the current one is cur.
SetPredecessorOp(n, cur, addr) ==
    IF addr = "" THEN EmptyNode
    ELSE IF cur.address = "" \/ KeyToRingId(addr, ID_SPACE_SIZE) # SelfId(n)
         THEN MkNode(addr)
         ELSE cur

\* Node.SetSuccessor: unconditional.
SetSuccessorOp(addr) == MkNode(addr)

\* The addresses of S in ascending id order (sort.Slice on the ids).
RECURSIVE SortById(_)
SortById(S) ==
    IF S = {} THEN <<>>
    ELSE LET lo == CHOOSE x \in S :
                     \A y \in S : KeyToRingId(x, ID_SPACE_SIZE) <= KeyToRingId(y, ID_SPACE_SIZE)
         IN  <<lo>> \o SortById(S \ {lo})

Range(seq) == {seq[j] : j \in 1 .. Len(seq)}

\* First index of seq whose element is in S, or 0 when there is none.
FirstIndex(seq, S) ==
    LET hits == {j \in 1 .. Len(seq) : seq[j] \in S}
    IN  IF hits = {} THEN 0 ELSE CHOOSE j \in hits : \A h \in hits : j <= h

\* Go's remainder: the sign of the dividend.
GoMod(x, y) == IF x >= 0 THEN x % y ELSE 0 - ((0 - x) % y)

\* SetNetwork: the finger table built from the sorted membership.
NetworkFinger(n, sorted) ==
    [i \in FingerIdx |->
        LET fingerKey == FingerStart(SelfId(n), i)
            atOrAfter == {a \in Range(sorted) : KeyToRingId(a, ID_SPACE_SIZE) >= fingerKey}
            hit == FirstIndex(sorted, atOrAfter)
            chosen == IF hit = 0 THEN sorted[1] ELSE sorted[hit]
        IN  [start |-> fingerKey, node |-> MkNode(chosen)]]

\* SetNetwork: 0-based position of self in the sorted membership, -1 if absent.
NetworkSelfIndex(n, sorted) ==
    LET isSelf == {a \in Range(sorted) : KeyToRingId(a, ID_SPACE_SIZE) = SelfId(n)}
    IN  FirstIndex(sorted, isSelf) - 1

\* SetNetwork: the address installed as successor.
NetworkSuccessor(n, sorted) ==
    sorted[GoMod(NetworkSelfIndex(n, sorted) + 1, Len(sorted)) + 1]

\* SetNetwork: the address handed to SetPredecessor.
NetworkPredecessor(n, sorted) ==
    sorted[GoMod(NetworkSelfIndex(n, sorted) - 1 + Len(sorted), Len(sorted)) + 1]

----------------------------------------------------------------------------
\* Routing helpers of a node (reads of the current state).

\* crashMiddleware without the inactive test: every request reaches the
\* handler.
ServedWhileInactive(t, path) == t \in nodes

\* crashMiddleware: a request on path reaches the handler of node t.
Served(t, path) == t \in nodes /\ (path = "/sim-recover" \/ ~inactive[t])

\* Fingers of n from index i down to 0 whose id lies in (n.id, keyId).
RECURSIVE PrecedingFrom(_, _, _)
PrecedingFrom(n, keyId, i) ==
    IF i < 0 THEN <<>>
    ELSE (IF InIntervalOpen(finger[n][i].node.id, SelfId(n), keyId)
          THEN <<finger[n][i].node.address>> ELSE <<>>)
         \o PrecedingFrom(n, keyId, i - 1)

\* Node.closestPrecedingNodes
closestPrecedingNodes(n, keyId) == PrecedingFrom(n, keyId, M - 1)

\* closestPrecedingNode as it would be without the interval test: the
\* farthest finger, wherever it points.
closestPrecedingNodeFarthest(n, keyId) == finger[n][M - 1].node.address

\* Node.closestPrecedingNode: the first such finger, else the successor.
closestPrecedingNode(n, keyId) ==
    LET cs == closestPrecedingNodes(n, keyId)
    IN  IF cs # <<>> THEN cs[1] ELSE successor[n].address

InSeq(x, seq) == \E j \in 1 .. Len(seq) : seq[j] = x

\* Appends the finger targets from index i on that are neither self nor seen.
RECURSIVE DistinctFingersFrom(_, _, _)
DistinctFingersFrom(n, i, acc) ==
    IF i > M - 1 THEN acc
    ELSE LET addr == finger[n][i].node.address
         IN  DistinctFingersFrom(n, i + 1,
                 IF addr # n /\ ~InSeq(addr, acc) THEN Append(acc, addr) ELSE acc)

\* The candidates as they would be with the immediate successor tried after
\* the fingers instead of first.
closestSuccessorNodesSuccessorLast(n) ==
    LET fs == DistinctFingersFrom(n, 0, <<>>)
        succAddr == successor[n].address
    IN  IF succAddr # n /\ ~InSeq(succAddr, fs) THEN Append(fs, succAddr) ELSE fs

\* Node.closestSuccessorNodes: successor first, then the distinct fingers.
closestSuccessorNodes(n) ==
    DistinctFingersFrom(n, 0,
        IF successor[n].address # n THEN <<successor[n].address>> ELSE <<>>)

\* Outcomes of a peer call that is not an address.
RpcError == "!error"
RpcTimeout == "!timeout"

\* A chain of nested find-successor calls longer than the number of nodes
\* revisits a node with the same key: it never answers, and the outermost
\* caller's fast client times out first.
MaxDepth == Cardinality(nodes)

\* Node.FindSuccessor on n, and HTTPTransport.FindSuccessor towards a peer.
\* depth 0 is the caller that is not itself serving a find-successor call.
RECURSIVE NodeFindSuccessor(_, _, _)
RECURSIVE TryCandidates(_, _, _, _, _)
TransportFindSuccessor(t, keyId, depth) ==
    IF ~Served(t, "/successor") THEN RpcError
    ELSE IF depth >= MaxDepth THEN RpcTimeout
    ELSE NodeFindSuccessor(t, keyId, depth + 1)

\* The candidate loop as it would be without the fallback to the own
\* successor: when no candidate answers, the lookup fails.
RECURSIVE TryCandidatesNoFallback(_, _, _, _, _)
TryCandidatesNoFallback(n, keyId, cs, i, depth) ==
    IF i > Len(cs) THEN RpcError
    ELSE LET r == TransportFindSuccessor(cs[i], keyId, depth)
         IN  IF r = RpcError THEN TryCandidatesNoFallback(n, keyId, cs, i + 1, depth)
             ELSE IF r = RpcTimeout
                  THEN (IF depth = 0 THEN TryCandidatesNoFallback(n, keyId, cs, i + 1, depth)
                        ELSE RpcTimeout)
             ELSE r

TryCandidates(n, keyId, cs, i, depth) ==
    IF i > Len(cs) THEN successor[n].address
    ELSE LET r == TransportFindSuccessor(cs[i], keyId, depth)
         IN  IF r = RpcError THEN TryCandidates(n, keyId, cs, i + 1, depth)
             ELSE IF r = RpcTimeout
                  THEN (IF depth = 0 THEN TryCandidates(n, keyId, cs, i + 1, depth)
                        ELSE RpcTimeout)
             ELSE r

NodeFindSuccessor(n, keyId, depth) ==
    IF InIntervalRightInclusive(keyId, SelfId(n), successor[n].id)
    THEN successor[n].address
    ELSE TryCandidates(n, keyId, closestPrecedingNodes(n, keyId), 1, depth)

\* Node.FindSuccessor as its callers see it: (address, err); err is always nil.
FindSuccessor(n, keyId) == [addr |-> NodeFindSuccessor(n, keyId, 0), err |-> FALSE]

\* HTTPTransport.GetPredecessor
TransportGetPredecessor(t) ==
    IF Served(t, "/predecessor") THEN predecessor[t].address ELSE RpcError

\* CheckAlive as it would be without the look at the status code: any answer,
\* the 503 of an inactive node included, counts as alive.
TransportCheckAliveAnyStatus(t) == t \in nodes

\* HTTPTransport.CheckAlive: the ping answered 200.
TransportCheckAlive(t) == Served(t, "/ping")

\* Node.Notify on node t: its predecessor after notify(s).
NotifyOp(t, s) ==
    IF s = "" \/ s = t THEN predecessor[t]
    ELSE IF predecessor[t].address = ""
            \/ InIntervalRightInclusive(KeyToRingId(s, ID_SPACE_SIZE),
                                        predecessor[t].id, SelfId(t))
         THEN SetPredecessorOp(t, predecessor[t], s)
         ELSE predecessor[t]

\* Node.removeFailedFinger: the finger table of n without failedAddr.
removeFailedFinger(n, failedAddr) ==
    LET cs == closestSuccessorNodes(n)
        hit == FirstIndex(cs, Range(cs) \ {failedAddr})
        nextSuccessorAddr == IF hit = 0 THEN n ELSE cs[hit]
    IN  [i \in FingerIdx |->
            IF finger[n][i].node.address = failedAddr
            THEN [finger[n][i] EXCEPT !.node = MkNode(nextSuccessorAddr)]
            ELSE finger[n][i]]

----------------------------------------------------------------------------
\* The maintenance goroutine (Node.RunMaintenance).  One tick is
\* CheckPredecessor, Stabilize, FixFinger(nextFingerIndex); every call to a
\* peer is a step of its own, so that other nodes and handlers interleave.

NoCands == <<>>

\* CheckPredecessor with the liveness test inverted: a predecessor that
\* answers the ping is dropped.
CheckPredecessorInverted(n) ==
    LET predAddr == predecessor[n].address
    IN  IF predAddr = "" THEN predecessor[n]
        ELSE IF TransportCheckAlive(predAddr)
             THEN SetPredecessorOp(n, predecessor[n], "")
             ELSE predecessor[n]

\* Node.CheckPredecessor: the predecessor of n after the check.
CheckPredecessor(n) ==
    LET predAddr == predecessor[n].address
    IN  IF predAddr = "" THEN predecessor[n]
        ELSE IF ~TransportCheckAlive(predAddr)
             THEN SetPredecessorOp(n, predecessor[n], "")
             ELSE predecessor[n]

\* The ticker fires on an active node: the tick starts with CheckPredecessor.
\* (On an inactive node the tick does nothing.)
RunMaintenance(n) ==
    /\ mpc[n] = "idle"
    /\ ~inactive[n]
    /\ predecessor' = [predecessor EXCEPT ![n] = CheckPredecessor(n)]
    /\ mpc' = [mpc EXCEPT ![n] = "stabilize"]
    /\ UNCHANGED <<nodes, call, mu, thr, visited, atCrash, successor, finger, data, inactive, nextFingerIndex,
                   cands, ci, liveCand, req, acked, script, nreq, nevents>>

\* Stabilize, successor = self, without the look at the own predecessor: the
\* node stays its own successor.
StabilizeLocalKeepsSelf(n) == successor[n]

\* Stabilize, successor = self: adopt the own predecessor when there is one.
StabilizeLocal(n) ==
    LET predAddr == predecessor[n].address
    IN  IF predAddr # "" /\ predAddr # n
           /\ InIntervalOpen(KeyToRingId(predAddr, ID_SPACE_SIZE), SelfId(n), successor[n].id)
        THEN SetSuccessorOp(predAddr)
        ELSE successor[n]

\* Stabilize up to its first call to a peer.
Stabilize(n) ==
    /\ mpc[n] = "stabilize"
    /\ IF successor[n].address = n
       THEN /\ successor' = [successor EXCEPT ![n] = StabilizeLocal(n)]
            /\ mpc' = [mpc EXCEPT ![n] =
                          IF StabilizeLocal(n).address = n THEN "fixfinger" ELSE "notify"]
            /\ UNCHANGED <<cands, ci, liveCand>>
       ELSE /\ cands' = [cands EXCEPT ![n] = closestSuccessorNodes(n)]
            /\ ci' = [ci EXCEPT ![n] = 1]
            /\ liveCand' = [liveCand EXCEPT ![n] = FALSE]
            /\ mpc' = [mpc EXCEPT ![n] = "probe"]
            /\ UNCHANGED successor
    /\ UNCHANGED <<nodes, call, mu, thr, visited, atCrash, predecessor, finger, data, inactive, nextFingerIndex,
                   req, acked, script, nreq, nevents>>

\* The reply handling as it would be if a candidate that fails to answer
\* counted as live: the round never falls back to self.
ProbeOutcomeFailureCountsLive(n, candidate) ==
    LET predAddr == TransportGetPredecessor(candidate)
    IN  IF predAddr = RpcError
        THEN [next |-> "continue", succ |-> successor[n], live |-> TRUE]
        ELSE IF predAddr = ""
        THEN [next |-> "stop", succ |-> SetSuccessorOp(candidate), live |-> TRUE]
        ELSE IF predAddr = n
        THEN [next |-> "stop", succ |-> successor[n], live |-> TRUE]
        ELSE IF InIntervalOpen(KeyToRingId(predAddr, ID_SPACE_SIZE), SelfId(n), successor[n].id)
        THEN [next |-> "stop", succ |-> SetSuccessorOp(predAddr), live |-> TRUE]
        ELSE [next |-> "continue", succ |-> successor[n], live |-> TRUE]

\* What the reply of one candidate makes of the round:
\* next |-> "stop" ends the loop, "continue" moves to the next candidate.
ProbeOutcome(n, candidate) ==
    LET predAddr == TransportGetPredecessor(candidate)
    IN  IF predAddr = RpcError
        THEN [next |-> "continue", succ |-> successor[n], live |-> liveCand[n]]
        ELSE IF predAddr = ""
        THEN [next |-> "stop", succ |-> SetSuccessorOp(candidate), live |-> TRUE]
        ELSE IF predAddr = n
        THEN [next |-> "stop", succ |-> successor[n], live |-> TRUE]
        ELSE IF InIntervalOpen(KeyToRingId(predAddr, ID_SPACE_SIZE), SelfId(n), successor[n].id)
        THEN [next |-> "stop", succ |-> SetSuccessorOp(predAddr), live |-> TRUE]
        ELSE [next |-> "continue", succ |-> successor[n], live |-> TRUE]

\* Stabilize: one getPredecessor call and what follows it up to the next call.
StabilizeProbe(n) ==
    /\ mpc[n] = "probe"
    /\ LET o == ProbeOutcome(n, cands[n][ci[n]])
           last == ci[n] >= Len(cands[n])
           done == o.next = "stop" \/ last
           succ1 == IF o.next = "continue" /\ last /\ ~o.live
                    THEN SetSuccessorOp(n) ELSE o.succ
       IN  /\ successor' = [successor EXCEPT ![n] = succ1]
           /\ IF done
              THEN /\ mpc' = [mpc EXCEPT ![n] =
                                 IF succ1.address = n THEN "fixfinger" ELSE "notify"]
                   /\ cands' = [cands EXCEPT ![n] = NoCands]
                   /\ ci' = [ci EXCEPT ![n] = 0]
                   /\ liveCand' = [liveCand EXCEPT ![n] = FALSE]
              ELSE /\ ci' = [ci EXCEPT ![n] = ci[n] + 1]
                   /\ liveCand' = [liveCand EXCEPT ![n] = o.live]
                   /\ UNCHANGED <<mpc, cands>>
    /\ UNCHANGED <<nodes, call, mu, thr, visited, atCrash, predecessor, finger, data, inactive, nextFingerIndex,
                   req, acked, script, nreq, nevents>>

\* The end of Stabilize as it would be without the notify call.
StabilizeNotifyOmitted(n) ==
    /\ mpc[n] = "notify"
    /\ mpc' = [mpc EXCEPT ![n] = "fixfinger"]
    /\ UNCHANGED <<nodes, call, mu, thr, visited, atCrash, successor, predecessor, finger, data,
                   inactive, nextFingerIndex, cands, ci, liveCand, req, acked, script,
                   nreq, nevents>>

\* Stabilize: notify(self) to the resulting successor (skipped when it is self).
StabilizeNotify(n) ==
    /\ mpc[n] = "notify"
    /\ LET succAddr == successor[n].address
       IN  IF succAddr # n /\ Served(succAddr, "/predecessor")
           THEN predecessor' = [predecessor EXCEPT ![succAddr] = NotifyOp(succAddr, n)]
           ELSE UNCHANGED predecessor
    /\ mpc' = [mpc EXCEPT ![n] = "fixfinger"]
    /\ UNCHANGED <<nodes, call, mu, thr, visited, atCrash, successor, finger, data, inactive, nextFingerIndex,
                   cands, ci, liveCand, req, acked, script, nreq, nevents>>

\* FixFinger as it would be without the test for self: the node installs
\* itself as a finger target.
FixFingerInstallsSelf(n, index) ==
    LET start == finger[n][index].start
        currentFingerAddr == finger[n][index].node.address
        found == FindSuccessor(n, start)
    IN  IF found.err THEN removeFailedFinger(n, currentFingerAddr)
        ELSE IF found.addr = currentFingerAddr THEN finger[n]
        ELSE [finger[n] EXCEPT ![index].node = MkNode(found.addr)]

\* Node.FixFinger(index): the finger table of n afterwards.
FixFingerOp(n, index) ==
    LET start == finger[n][index].start
        currentFingerAddr == finger[n][index].node.address
        found == FindSuccessor(n, start)
    IN  IF found.err THEN removeFailedFinger(n, currentFingerAddr)
        ELSE IF found.addr = n THEN finger[n]
        ELSE IF found.addr = currentFingerAddr THEN finger[n]
        ELSE [finger[n] EXCEPT ![index].node = MkNode(found.addr)]

\* The last step of the tick as it would be without the advance of the index:
\* every tick repairs the same finger.
FixFingerSameIndex(n) ==
    /\ mpc[n] = "fixfinger"
    /\ finger' = [finger EXCEPT ![n] = FixFingerOp(n, nextFingerIndex[n])]
    /\ mpc' = [mpc EXCEPT ![n] = "idle"]
    /\ UNCHANGED <<nodes, call, mu, thr, visited, atCrash, successor, predecessor, data, inactive,
                   nextFingerIndex, cands, ci, liveCand, req, acked, script, nreq, nevents>>

\* The last step of the tick: FixFinger, then the index advances.
FixFinger(n) ==
    /\ mpc[n] = "fixfinger"
    /\ finger' = [finger EXCEPT ![n] = FixFingerOp(n, nextFingerIndex[n])]
    /\ nextFingerIndex' = [nextFingerIndex EXCEPT ![n] = (nextFingerIndex[n] + 1) % M]
    /\ mpc' = [mpc EXCEPT ![n] = "idle"]
    /\ UNCHANGED <<nodes, call, mu, thr, visited, atCrash, successor, predecessor, data, inactive,
                   cands, ci, liveCand, req, acked, script, nreq, nevents>>

\* Any step of the maintenance goroutine of n.
Maintenance(n) ==
    \/ RunMaintenance(n)
    \/ Stabilize(n)
    \/ StabilizeProbe(n)
    \/ StabilizeNotify(n)
    \/ FixFinger(n)

----------------------------------------------------------------------------
\* The HTTP surface.  One client issues one request at a time; req holds the
\* request while it travels (status 0) and the response afterwards.

NoRequest ==
    [method |-> "", path |-> "", key |-> "", value |-> "", entry |-> "", at |-> "",
     hops |-> 0, status |-> 200, body |-> ""]

InFlight == req.status = 0

\* A response to the request req, produced by the handler of node n.
Respond(status, body) == [req EXCEPT !.status = status, !.body = body]

\* Node.Put / Node.Get: the ownership test both apply.
Owns(n, keyId) == InIntervalRightInclusive(keyId, predecessor[n].id, SelfId(n))

\* Put as it would be without the ownership test: every node stores.
PutStoresAnywhere(n, key) == ""

\* Node.Put: the address to forward to, "" when the pair was stored here.
Put(n, key) ==
    LET keyId == KeyToRingId(key, ID_SPACE_SIZE)
    IN  IF Owns(n, keyId) THEN "" ELSE closestPrecedingNode(n, keyId)

\* Get as it would be if a key missing at its owner were no error: the
\* owner answers an empty value.
GetMissingIsEmpty(n, key) ==
    LET keyId == KeyToRingId(key, ID_SPACE_SIZE)
    IN  IF Owns(n, keyId)
        THEN [value |-> IF data[n][key] # NoValue THEN data[n][key] ELSE "",
              nextAddress |-> "", err |-> FALSE]
        ELSE [value |-> "", nextAddress |-> closestPrecedingNode(n, keyId), err |-> FALSE]

\* Node.Get: (value, nextAddress, err).
Get(n, key) ==
    LET keyId == KeyToRingId(key, ID_SPACE_SIZE)
    IN  IF Owns(n, keyId)
        THEN (IF data[n][key] # NoValue
              THEN [value |-> data[n][key], nextAddress |-> "", err |-> FALSE]
              ELSE [value |-> "", nextAddress |-> "", err |-> TRUE])
        ELSE [value |-> "", nextAddress |-> closestPrecedingNode(n, keyId), err |-> FALSE]

\* A store that drops a pair it is given a second time.
StoreDropsRepeated(n, key, value) ==
    [data EXCEPT ![n][key] = IF @ = value THEN NoValue ELSE value]

\* n.data.Store(key, value) in Node.Put: the entry of key is set, replacing
\* the one there may be.
Store(n, key, value) == [data EXCEPT ![n][key] = value]

\* The client sends PUT or GET /storage/{key} to node n.
ClientStorage(n, method, key, value) ==
    /\ ~InFlight
    /\ nreq < Len(script)
    /\ script[nreq + 1] = method
    /\ req' = [method |-> method, path |-> "/storage", key |-> key, value |-> value,
               entry |-> n, at |-> n, hops |-> 0, status |-> 0, body |-> ""]
    /\ nreq' = nreq + 1
    /\ visited' = <<n>>
    /\ UNCHANGED <<nodes, call, mu, thr, atCrash, successor, predecessor, finger, data, inactive,
                   mpc, nextFingerIndex, cands, ci, liveCand, acked, script, nevents>>

\* forwardRequest from the node the request is at to next: the peer's answer
\* is copied back hop by hop, so the request moves on and the final answer is
\* the client's.  A chain that outlasts the client timeout ends in 500.
Forward(next) ==
    IF req.hops >= MaxHops THEN Respond(500, "")
    ELSE [req EXCEPT !.at = next, !.hops = req.hops + 1]

\* handleStorage (behind crashMiddleware) on the node the request is at.
HandleStorage ==
    /\ InFlight
    /\ req.path = "/storage"
    /\ LET n == req.at
       IN  IF n \notin nodes
           THEN /\ req' = Respond(500, "")
                /\ UNCHANGED data
           ELSE IF ~Served(n, "/storage")
           THEN /\ req' = Respond(503, "")
                /\ UNCHANGED data
           ELSE IF req.method = "GET"
           THEN /\ LET g == Get(n, req.key)
                   IN  req' = IF g.err THEN Respond(404, "")
                              ELSE IF g.nextAddress # "" THEN Forward(g.nextAddress)
                              ELSE Respond(200, g.value)
                /\ UNCHANGED data
           ELSE /\ LET next == Put(n, req.key)
                   IN  /\ req' = IF next # "" THEN Forward(next) ELSE Respond(200, "")
                       /\ data' = IF next # "" THEN data
                                  ELSE Store(n, req.key, req.value)
    /\ acked' = IF req.method = "PUT" /\ req'.status = 200
                THEN [acked EXCEPT ![req.key] = req.value]
                ELSE acked
    /\ visited' = IF req'.status = 0 THEN Append(visited, req'.at) ELSE visited
    /\ UNCHANGED <<nodes, call, mu, thr, atCrash, successor, predecessor, finger, inactive,
                   mpc, nextFingerIndex, cands, ci, liveCand, script, nreq, nevents>>

\* The response of node n to a request that is answered at once.
Answer(n, method, path, status, body) ==
    [NoRequest EXCEPT !.method = method, !.path = path, !.entry = n, !.at = n,
                      !.status = status, !.body = body]

\* refuseRequest: what crashMiddleware answers for an inactive node.
Refuse(n, method, path) == Answer(n, method, path, 503, "")

\* PUT /network (handleNetwork, Node.SetNetwork) on node n with the given
\* membership: successor, predecessor and fingers from the sorted list.
HandleNetworkPut(n, network) ==
    /\ ~InFlight
    /\ nevents < MaxEvents
    /\ nevents' = nevents + 1
    /\ network # {}
    /\ LET sorted == SortById(network)
       IN  IF ~Served(n, "/network")
           THEN /\ req' = Refuse(n, "PUT", "/network")
                /\ UNCHANGED <<successor, predecessor, finger>>
           ELSE /\ req' = Answer(n, "PUT", "/network", 200, "")
                /\ successor' = [successor EXCEPT ![n] =
                                    SetSuccessorOp(NetworkSuccessor(n, sorted))]
                /\ predecessor' = [predecessor EXCEPT ![n] =
                                      SetPredecessorOp(n, predecessor[n],
                                                       NetworkPredecessor(n, sorted))]
                /\ finger' = [finger EXCEPT ![n] = NetworkFinger(n, sorted)]
    /\ UNCHANGED <<nodes, call, mu, thr, visited, atCrash, data, inactive, mpc, nextFingerIndex, cands, ci, liveCand,
                   acked, script, nreq>>

\* GET /ping
HandlePing(n) ==
    /\ ~InFlight
    /\ nreq < Len(script)
    /\ script[nreq + 1] = "GET"
    /\ nreq' = nreq + 1
    /\ req' = IF Served(n, "/ping") THEN Answer(n, "GET", "/ping", 200, n)
              ELSE Refuse(n, "GET", "/ping")
    /\ UNCHANGED <<nodes, call, mu, thr, visited, atCrash, successor, predecessor, finger, data, inactive,
                   mpc, nextFingerIndex, cands, ci, liveCand, acked, script, nevents>>

\* GET /node-info; the body is abridged to the successor's address.
HandleNodeInfo(n) ==
    /\ ~InFlight
    /\ nreq < Len(script)
    /\ script[nreq + 1] = "GET"
    /\ nreq' = nreq + 1
    /\ req' = IF Served(n, "/node-info")
              THEN Answer(n, "GET", "/node-info", 200, successor[n].address)
              ELSE Refuse(n, "GET", "/node-info")
    /\ UNCHANGED <<nodes, call, mu, thr, visited, atCrash, successor, predecessor, finger, data, inactive,
                   mpc, nextFingerIndex, cands, ci, liveCand, acked, script, nevents>>

\* GET /predecessor sent by a client.
HandlePredecessorGet(n) ==
    /\ ~InFlight
    /\ nreq < Len(script)
    /\ script[nreq + 1] = "GET"
    /\ nreq' = nreq + 1
    /\ req' = IF Served(n, "/predecessor")
              THEN Answer(n, "GET", "/predecessor", 200, predecessor[n].address)
              ELSE Refuse(n, "GET", "/predecessor")
    /\ UNCHANGED <<nodes, call, mu, thr, visited, atCrash, successor, predecessor, finger, data, inactive,
                   mpc, nextFingerIndex, cands, ci, liveCand, acked, script, nevents>>

\* PUT /predecessor with body s, the notify RPC, whoever sends it.
HandlePredecessorPut(n, s) ==
    /\ ~InFlight
    /\ nevents < MaxEvents
    /\ nevents' = nevents + 1
    /\ IF Served(n, "/predecessor")
       THEN /\ predecessor' = [predecessor EXCEPT ![n] = NotifyOp(n, s)]
            /\ req' = Answer(n, "PUT", "/predecessor", 200, s)
       ELSE /\ req' = Refuse(n, "PUT", "/predecessor")
            /\ UNCHANGED predecessor
    /\ UNCHANGED <<nodes, call, mu, thr, visited, atCrash, successor, finger, data, inactive,
                   mpc, nextFingerIndex, cands, ci, liveCand, acked, script, nreq>>

\* POST /predecessor with body addr, the set-predecessor RPC, whoever sends it.
HandlePredecessorPost(n, addr) ==
    /\ ~InFlight
    /\ nevents < MaxEvents
    /\ nevents' = nevents + 1
    /\ IF Served(n, "/predecessor")
       THEN /\ predecessor' = [predecessor EXCEPT ![n] =
                                  SetPredecessorOp(n, predecessor[n], addr)]
            /\ req' = Answer(n, "POST", "/predecessor", 200, "")
       ELSE /\ req' = Refuse(n, "POST", "/predecessor")
            /\ UNCHANGED predecessor
    /\ UNCHANGED <<nodes, call, mu, thr, visited, atCrash, successor, finger, data, inactive,
                   mpc, nextFingerIndex, cands, ci, liveCand, acked, script, nreq>>

\* GET /successor?key=keyId sent by a client.
HandleSuccessorGet(n, keyId) ==
    /\ ~InFlight
    /\ nreq < Len(script)
    /\ script[nreq + 1] = "GET"
    /\ nreq' = nreq + 1
    /\ req' = IF Served(n, "/successor")
              THEN Answer(n, "GET", "/successor", 200, FindSuccessor(n, keyId).addr)
              ELSE Refuse(n, "GET", "/successor")
    /\ UNCHANGED <<nodes, call, mu, thr, visited, atCrash, successor, predecessor, finger, data, inactive,
                   mpc, nextFingerIndex, cands, ci, liveCand, acked, script, nevents>>

\* The routing state and the data of node n, as one value.
Snapshot(n) ==
    [successor |-> successor[n], predecessor |-> predecessor[n],
     finger |-> finger[n], data |-> data[n]]

\* atCrash of a node that is not crashed.
NoSnapshot == <<>>

\* POST /sim-crash
HandleSimCrash(n) ==
    /\ ~InFlight
    /\ nevents < MaxEvents
    /\ nevents' = nevents + 1
    /\ IF Served(n, "/sim-crash")
       THEN /\ inactive' = [inactive EXCEPT ![n] = TRUE]
            /\ atCrash' = [atCrash EXCEPT ![n] = <<Snapshot(n)>>]
            /\ req' = Answer(n, "POST", "/sim-crash", 200, "")
       ELSE /\ req' = Refuse(n, "POST", "/sim-crash")
            /\ UNCHANGED <<inactive, atCrash>>
    /\ UNCHANGED <<nodes, call, mu, thr, visited, successor, predecessor, finger, data,
                   mpc, nextFingerIndex, cands, ci, liveCand, acked, script, nreq>>

\* POST /sim-recover
HandleSimRecover(n) ==
    /\ ~InFlight
    /\ nevents < MaxEvents
    /\ nevents' = nevents + 1
    /\ IF Served(n, "/sim-recover")
       THEN /\ inactive' = [inactive EXCEPT ![n] = FALSE]
            /\ atCrash' = [atCrash EXCEPT ![n] = NoSnapshot]
            /\ req' = Answer(n, "POST", "/sim-recover", 200, "")
       ELSE /\ req' = Refuse(n, "POST", "/sim-recover")
            /\ UNCHANGED <<inactive, atCrash>>
    /\ UNCHANGED <<nodes, call, mu, thr, visited, successor, predecessor, finger, data,
                   mpc, nextFingerIndex, cands, ci, liveCand, acked, script, nreq>>

\* POST /join as it would be if a failed lookup at the seed made the node take
\* the seed itself as successor.
HandleJoinAdoptsSeed(n, nprime) ==
    /\ ~InFlight
    /\ nevents < MaxEvents
    /\ nevents' = nevents + 1
    /\ IF ~Served(n, "/join")
       THEN /\ req' = Refuse(n, "POST", "/join")
            /\ UNCHANGED successor
       ELSE LET successorAddress == TransportFindSuccessor(nprime, SelfId(n), 0)
            IN  IF successorAddress \in {RpcError, RpcTimeout}
                THEN /\ req' = Answer(n, "POST", "/join", 500, "")
                     /\ successor' = [successor EXCEPT ![n] = SetSuccessorOp(nprime)]
                ELSE /\ req' = Answer(n, "POST", "/join", 200, "")
                     /\ successor' = [successor EXCEPT ![n] = SetSuccessorOp(successorAddress)]
    /\ UNCHANGED <<nodes, call, mu, thr, visited, atCrash, predecessor, finger, data, inactive,
                   mpc, nextFingerIndex, cands, ci, liveCand, acked, script, nreq>>

\* POST /join?nprime=seed: the successor becomes what the seed answers.
HandleJoin(n, nprime) ==
    /\ ~InFlight
    /\ nevents < MaxEvents
    /\ nevents' = nevents + 1
    /\ IF ~Served(n, "/join")
       THEN /\ req' = Refuse(n, "POST", "/join")
            /\ UNCHANGED successor
       ELSE LET successorAddress == TransportFindSuccessor(nprime, SelfId(n), 0)
            IN  IF successorAddress \in {RpcError, RpcTimeout}
                THEN /\ req' = Answer(n, "POST", "/join", 500, "")
                     /\ UNCHANGED successor
                ELSE /\ req' = Answer(n, "POST", "/join", 200, "")
                     /\ successor' = [successor EXCEPT ![n] = SetSuccessorOp(successorAddress)]
    /\ UNCHANGED <<nodes, call, mu, thr, visited, atCrash, predecessor, finger, data, inactive,
                   mpc, nextFingerIndex, cands, ci, liveCand, acked, script, nreq>>

\* Node.resetToStartingState: the finger table (the entries lose their start).
ResetFinger(n) == [i \in FingerIdx |-> [start |-> 0, node |-> SelfNode(n)]]

\* Node.Leave, first call: the successor is told to take our predecessor.
LeavePredecessors(n) ==
    LET succAddr == successor[n].address
    IN  IF succAddr # "" /\ Served(succAddr, "/predecessor")
        THEN [predecessor EXCEPT ![succAddr] =
                 SetPredecessorOp(succAddr, predecessor[succAddr], predecessor[n].address)]
        ELSE predecessor

\* Node.Leave, second call: the predecessor is told to take our successor.
LeaveSuccessors(n) ==
    LET predAddr == predecessor[n].address
    IN  IF predAddr # "" /\ Served(predAddr, "/successor")
        THEN [successor EXCEPT ![predAddr] = SetSuccessorOp(successor[n].address)]
        ELSE successor

\* POST /leave as it would be if the reset to the starting state emptied the
\* data of the node as well.
HandleLeaveDropsData(n) ==
    /\ ~InFlight
    /\ nevents < MaxEvents
    /\ nevents' = nevents + 1
    /\ IF ~Served(n, "/leave")
       THEN /\ req' = Refuse(n, "POST", "/leave")
            /\ UNCHANGED <<successor, predecessor, finger, inactive, data>>
       ELSE /\ req' = Answer(n, "POST", "/leave", 200, "")
            /\ predecessor' = [LeavePredecessors(n) EXCEPT ![n] = EmptyNode]
            /\ successor' = [LeaveSuccessors(n) EXCEPT ![n] = SelfNode(n)]
            /\ finger' = [finger EXCEPT ![n] = ResetFinger(n)]
            /\ inactive' = [inactive EXCEPT ![n] = TRUE]
            /\ data' = [data EXCEPT ![n] = [k \in Keys |-> NoValue]]
    /\ UNCHANGED <<nodes, call, mu, thr, visited, atCrash, mpc, nextFingerIndex, cands, ci,
                   liveCand, acked, script, nreq>>

\* POST /leave: Node.Leave, then the transport turns inactive.
HandleLeave(n) ==
    /\ ~InFlight
    /\ nevents < MaxEvents
    /\ nevents' = nevents + 1
    /\ IF ~Served(n, "/leave")
       THEN /\ req' = Refuse(n, "POST", "/leave")
            /\ UNCHANGED <<successor, predecessor, finger, inactive>>
       ELSE /\ req' = Answer(n, "POST", "/leave", 200, "")
            /\ predecessor' = [LeavePredecessors(n) EXCEPT ![n] = EmptyNode]
            /\ successor' = [LeaveSuccessors(n) EXCEPT ![n] = SelfNode(n)]
            /\ finger' = [finger EXCEPT ![n] = ResetFinger(n)]
            /\ inactive' = [inactive EXCEPT ![n] = TRUE]
    /\ UNCHANGED <<nodes, call, mu, thr, visited, atCrash, data, mpc, nextFingerIndex, cands, ci, liveCand,
                   acked, script, nreq>>

----------------------------------------------------------------------------
\* Initial states.

\* Every process of S right after Create and SetTransport.
Created(S) ==
    /\ nodes = S
    /\ successor = [n \in S |-> SelfNode(n)]
    /\ predecessor = [n \in S |-> EmptyNode]
    /\ finger = [n \in S |-> CreateFinger(n)]
    /\ data = [n \in S |-> [k \in Keys |-> NoValue]]
    /\ inactive = [n \in S |-> FALSE]

\* The routing state and data of the processes of S, each created and then
\* bootstrapped by PUT /network with the membership S (the broadcast
\* bootstrap).
BootstrappedState(S) ==
    /\ nodes = S
    /\ successor = [n \in S |-> SetSuccessorOp(NetworkSuccessor(n, SortById(S)))]
    /\ predecessor = [n \in S |->
                         SetPredecessorOp(n, EmptyNode, NetworkPredecessor(n, SortById(S)))]
    /\ finger = [n \in S |-> NetworkFinger(n, SortById(S))]
    /\ data = [n \in S |-> [k \in Keys |-> NoValue]]

\* Every process of S bootstrapped with the membership S and active, before
\* any request or event.
Bootstrapped(S) ==
    /\ BootstrappedState(S)
    /\ inactive = [n \in S |-> FALSE]

\* The maintenance goroutines wait for their ticker; no request was sent.
Waiting(S, todo) ==
    /\ mpc = [n \in S |-> "idle"]
    /\ nextFingerIndex = [n \in S |-> 0]
    /\ cands = [n \in S |-> NoCands]
    /\ ci = [n \in S |-> 0]
    /\ liveCand = [n \in S |-> FALSE]
    /\ req = NoRequest
    /\ acked = [k \in Keys |-> NoValue]
    /\ script = todo
    /\ nreq = 0
    /\ nevents = 0
    /\ visited = <<>>

\* Nobody holds the write side of Node.mu.
NoHolder == ""

\* No handler is followed statement by statement: every handler runs as one
\* step.
NoHandlerThreads ==
    /\ mu = [n \in Addresses |-> NoHolder]
    /\ thr = <<>>

\* No helper function was called directly.
NoCall == [fn |-> "", x |-> 0, a |-> 0, b |-> 0, result |-> FALSE]

\* The goroutines wait, no request was sent and no node was crashed.
Quiet(S, todo) ==
    /\ Waiting(S, todo)
    /\ atCrash = [n \in S |-> NoSnapshot]
    /\ call = NoCall
    /\ NoHandlerThreads

----------------------------------------------------------------------------
\* Spec: a ring with stable membership.  Every node was bootstrapped with the
\* same membership; the nodes run maintenance and serve storage requests.

Init ==
    \E S \in SUBSET Addresses :
        /\ S # {}
        /\ Bootstrapped(S)
        /\ Quiet(S, <<"PUT", "GET">>)

Next ==
    \/ \E n \in nodes : RunMaintenance(n)
    \/ \E n \in nodes : Stabilize(n)
    \/ \E n \in nodes : StabilizeProbe(n)
    \/ \E n \in nodes : StabilizeNotify(n)
    \/ \E n \in nodes : FixFinger(n)
    \/ \E n \in nodes, k \in Keys, v \in Values : ClientStorage(n, "PUT", k, v)
    \/ \E n \in nodes, k \in Keys : ClientStorage(n, "GET", k, "")
    \/ HandleStorage

Spec == Init /\ [][Next]_vars

----------------------------------------------------------------------------
\* Properties of the ring with stable membership (Spec).

KeyIds == 0 .. (ID_SPACE_SIZE - 1)

Live == {n \in nodes : ~inactive[n]}

\* The live nodes that pass the ownership test of Put and Get for key id k.
Owners(k) == {n \in Live : Owns(n, k)}

StorageDone == req.path = "/storage" /\ ~InFlight

\* C1: with stable membership a PUT of (key, v) through any node followed by
\* a GET of key through any node answers 200 with v; the PUT itself answers
\* 200, and a value is held only by a node that passes the ownership test
\* for its key, which holds the acknowledged value.
C1_PutThenGetYieldsValue ==
    /\ (StorageDone /\ req.method = "PUT") => req.status = 200
    /\ (StorageDone /\ req.method = "GET" /\ acked[req.key] # NoValue)
          => (req.status = 200 /\ req.body = acked[req.key])
    /\ \A n \in nodes, k \in Keys :
          data[n][k] # NoValue
             => (Owns(n, KeyToRingId(k, ID_SPACE_SIZE)) /\ data[n][k] = acked[k])
    /\ \A k \in Keys :
          acked[k] # NoValue => \E n \in nodes : data[n][k] = acked[k]

\* A GET that entered at a node other than the owner, was forwarded and
\* came back with the value of the earlier PUT.
C1_Witness ==
    /\ StorageDone /\ req.method = "GET" /\ req.status = 200
    /\ req.hops > 0
    /\ req.body \in Values
    /\ req.body = acked[req.key]

\* successor.predecessor == self for every node.
SuccessorPredecessorIsSelf ==
    \A n \in nodes :
        /\ successor[n].address \in nodes
        /\ predecessor[successor[n].address] = SelfNode(n)

\* C4: after the bootstrap of every node with the same membership,
\* successor.predecessor == self holds for every node and no step of any
\* maintenance tick changes a successor or a predecessor pointer.
C4_BootstrappedLinksStay ==
    [][/\ SuccessorPredecessorIsSelf
       /\ SuccessorPredecessorIsSelf'
       /\ UNCHANGED <<successor, predecessor>>]_vars

\* A ring of three nodes in which a node has been notified by its
\* predecessor: the tick has passed stabilize and notify.
C4_Witness ==
    /\ Cardinality(nodes) = 3
    /\ SuccessorPredecessorIsSelf
    /\ \E n \in nodes : mpc[n] = "fixfinger" /\ nextFingerIndex[n] = M - 1
    /\ \E n \in nodes : mpc[n] = "probe"

----------------------------------------------------------------------------
\* SpecJoin: one or two freshly created processes.  One node may be told to
\* join through a seed; the nodes run maintenance and serve one storage
\* request.

InitJoin ==
    \E S \in SUBSET Addresses :
        /\ Cardinality(S) \in {1, 2}
        /\ Created(S)
        /\ \E m \in {"PUT", "GET"} : Quiet(S, <<m>>)

NextJoin ==
    \/ \E n \in nodes : RunMaintenance(n)
    \/ \E n \in nodes : Stabilize(n)
    \/ \E n \in nodes : StabilizeProbe(n)
    \/ \E n \in nodes : StabilizeNotify(n)
    \/ \E n \in nodes : FixFinger(n)
    \/ \E n \in nodes, nprime \in nodes : nevents = 0 /\ HandleJoin(n, nprime)
    \/ \E n \in nodes, k \in Keys, v \in Values : ClientStorage(n, "PUT", k, v)
    \/ \E n \in nodes, k \in Keys : ClientStorage(n, "GET", k, "")
    \/ HandleStorage

SpecJoin == InitJoin /\ [][NextJoin]_vars

\* The storage handler of the active node n takes the request in this step.
StorageStepAt(n) == HandleStorage /\ req.at = n /\ ~inactive[n]

\* n is a one-node ring: its own successor, predecessor empty or itself.
OneNodeRing(n) == successor[n].address = n /\ predecessor[n].address \in {"", n}

\* C6: a node that is its own successor, with an empty predecessor or with
\* itself as predecessor, stores every PUT locally and answers 200, answers a
\* GET of a key it holds with 200 and the value, and never hands out a
\* forward address.
C6_OneNodeRingServesLocally ==
    [][\A n \in nodes :
          (OneNodeRing(n) /\ StorageStepAt(n)) =>
             /\ Put(n, req.key) = ""
             /\ Get(n, req.key).nextAddress = ""
             /\ req.method = "PUT" =>
                   (req'.status = 200 /\ data'[n][req.key] = req.value)
             /\ (req.method = "GET" /\ data[n][req.key] # NoValue) =>
                   (req'.status = 200 /\ req'.body = data[n][req.key])]_vars

\* C7: a node with an empty predecessor whose successor is another node does
\* not claim any key: a storage request it handles leaves its data alone and
\* both Put and Get give a forward address.
C7_EmptyPredecessorForwards ==
    [][\A n \in nodes :
          (/\ predecessor[n].address = ""
           /\ successor[n].address # n
           /\ StorageStepAt(n)) =>
             /\ data' = data
             /\ Put(n, req.key) # ""
             /\ Get(n, req.key).nextAddress # ""]_vars

----------------------------------------------------------------------------
\* SpecBoot: created processes that are bootstrapped, and bootstrapped
\* again, through PUT /network with any membership.

InitBoot ==
    \E S \in SUBSET Addresses :
        /\ S # {}
        /\ Created(S)
        /\ Quiet(S, <<>>)

NextBoot ==
    \E n \in nodes, network \in SUBSET Addresses : HandleNetworkPut(n, network)

SpecBoot == InitBoot /\ [][NextBoot]_vars

\* Members of a membership T in ring order.
MinById(T) ==
    CHOOSE a \in T : \A b \in T : KeyToRingId(a, ID_SPACE_SIZE) <= KeyToRingId(b, ID_SPACE_SIZE)

MaxById(T) ==
    CHOOSE a \in T : \A b \in T : KeyToRingId(a, ID_SPACE_SIZE) >= KeyToRingId(b, ID_SPACE_SIZE)

\* The member with the smallest id >= x, wrapping to the smallest id.
FirstMemberAtOrAfter(T, x) ==
    LET ge == {a \in T : KeyToRingId(a, ID_SPACE_SIZE) >= x}
    IN  IF ge = {} THEN MinById(T) ELSE MinById(ge)

\* The member after n in ascending id order, with wrap.
NextMember(T, n) ==
    LET gt == {a \in T : KeyToRingId(a, ID_SPACE_SIZE) > SelfId(n)}
    IN  IF gt = {} THEN MinById(T) ELSE MinById(gt)

\* The member before n in ascending id order, with wrap.
PrevMember(T, n) ==
    LET lt == {a \in T : KeyToRingId(a, ID_SPACE_SIZE) < SelfId(n)}
    IN  IF lt = {} THEN MaxById(T) ELSE MaxById(lt)

\* C5: PUT /network on node n with a membership that contains n leaves
\* finger[i].start = (n.id + 2^i) mod 2^M and finger[i] targeting the member
\* with the smallest id >= start (wrapping to the smallest id), the successor
\* the member after n and the predecessor the member before n.
C5_NetworkInstallsMembership ==
    [][\A n \in nodes, network \in SUBSET Addresses :
          (n \in network /\ ~inactive[n] /\ HandleNetworkPut(n, network)) =>
             /\ \A i \in FingerIdx :
                   /\ finger'[n][i].start = (SelfId(n) + 2 ^ i) % (2 ^ M)
                   /\ finger'[n][i].node =
                         MkNode(FirstMemberAtOrAfter(network, finger'[n][i].start))
             /\ successor'[n] = MkNode(NextMember(network, n))
             /\ predecessor'[n] = MkNode(PrevMember(network, n))]_vars

----------------------------------------------------------------------------
\* SpecTwoNodeJoin: two freshly created processes; one of them is told once
\* to join through the other.  The ticker of every node keeps firing and
\* every call of a tick returns, so a maintenance step that stays possible
\* is eventually taken.

InitTwoNodeJoin ==
    \E S \in SUBSET Addresses :
        /\ Cardinality(S) = 2
        /\ Created(S)
        /\ Quiet(S, <<>>)

NextTwoNodeJoin ==
    \/ \E n \in nodes : RunMaintenance(n)
    \/ \E n \in nodes : Stabilize(n)
    \/ \E n \in nodes : StabilizeProbe(n)
    \/ \E n \in nodes : StabilizeNotify(n)
    \/ \E n \in nodes : FixFinger(n)
    \/ \E n \in nodes, nprime \in nodes :
          n # nprime /\ nevents = 0 /\ HandleJoin(n, nprime)

FairMaintenance == \A n \in Addresses : WF_vars(n \in nodes /\ Maintenance(n))

SpecTwoNodeJoin == InitTwoNodeJoin /\ [][NextTwoNodeJoin]_vars /\ FairMaintenance

\* The one join has been answered 200.
JoinedOnce == nevents = 1 /\ req.path = "/join" /\ req.status = 200

\* Each of the two nodes has the other one as successor and as predecessor.
Linked ==
    \A n \in nodes :
        \E m \in nodes \ {n} : successor[n] = MkNode(m) /\ predecessor[n] = MkNode(m)

\* C8: two fresh nodes A and B; after POST /join?nprime=A on B, with both
\* nodes running their ticks, eventually A.successor = B, A.predecessor = B,
\* B.successor = A and B.predecessor = A, from then on for ever.
C8_TwoNodeJoinConverges == [](JoinedOnce => <>[]Linked)

\* The two nodes are linked after the join and both tickers are waiting.
C8_Witness ==
    /\ JoinedOnce
    /\ Linked
    /\ \A n \in nodes : mpc[n] = "idle" /\ nextFingerIndex[n] = 0

----------------------------------------------------------------------------
\* SpecCrash: the bootstrapped ring of the two nodes a and b under membership
\* events (crash, recover, leave, join through the other node, another
\* bootstrap with the same membership), with the nodes running maintenance
\* and a client that sends one request on any path of the HTTP surface.

CrashNodes == {"a", "b"}

CrashKeys == {"k1"}

InitCrash ==
    /\ Bootstrapped(CrashNodes)
    /\ \E m \in {"PUT", "GET"} : Quiet(CrashNodes, <<m>>)

NextCrash ==
    \/ \E n \in nodes : RunMaintenance(n)
    \/ \E n \in nodes : Stabilize(n)
    \/ \E n \in nodes : StabilizeProbe(n)
    \/ \E n \in nodes : StabilizeNotify(n)
    \/ \E n \in nodes : FixFinger(n)
    \/ \E n \in nodes : HandleSimCrash(n)
    \/ \E n \in nodes : HandleSimRecover(n)
    \/ \E n \in nodes : HandleLeave(n)
    \/ \E n \in nodes : \E nprime \in nodes \ {n} : HandleJoin(n, nprime)
    \/ \E n \in nodes : HandleNetworkPut(n, nodes)
    \/ \E n \in nodes : HandlePing(n)
    \/ \E n \in nodes : HandleNodeInfo(n)
    \/ \E n \in nodes : HandlePredecessorGet(n)
    \/ \E n \in nodes, keyId \in KeyIds : HandleSuccessorGet(n, keyId)
    \/ \E n \in nodes, k \in CrashKeys : ClientStorage(n, "PUT", k, "v1")
    \/ \E n \in nodes, k \in CrashKeys : ClientStorage(n, "GET", k, "")
    \/ HandleStorage

SpecCrash == InitCrash /\ [][NextCrash]_vars

\* A whole tick of the live node n, started now, would change nothing.
TickChangesNothing(n) ==
    /\ CheckPredecessor(n) = predecessor[n]
    /\ IF successor[n].address = n
       THEN StabilizeLocal(n) = successor[n]
       ELSE LET o == ProbeOutcome(n, closestSuccessorNodes(n)[1])
                succAddr == successor[n].address
            IN  /\ o.next = "stop"
                /\ o.succ = successor[n]
                /\ Served(succAddr, "/predecessor")
                      => NotifyOp(succAddr, n) = predecessor[succAddr]
    /\ \A i \in FingerIdx : FixFingerOp(n, i) = finger[n]

\* The ring has quiesced: some node is live, no tick is in progress and no
\* tick would change anything.
Quiescent ==
    /\ Live # {}
    /\ \A n \in nodes : mpc[n] = "idle"
    /\ \A n \in Live : TickChangesNothing(n)

\* C2: at quiescence every key id has exactly one live node that passes the
\* ownership test of Put and Get.
C2_ExactlyOneOwnerAtQuiescence ==
    Quiescent => \A k \in KeyIds : Cardinality(Owners(k)) = 1

\* C9: while node n is inactive, a step that is not a step of its own
\* maintenance goroutine and not its recovery leaves its successor,
\* predecessor, fingers and data as they are and leaves it inactive; every
\* response it gives has status 503, except the response to /sim-recover,
\* which is 200 and makes the node active.
C9_InactiveNodeRefuses ==
    [][\A n \in nodes :
          inactive[n] =>
             /\ ~Maintenance(n) =>
                   /\ successor'[n] = successor[n]
                   /\ predecessor'[n] = predecessor[n]
                   /\ finger'[n] = finger[n]
                   /\ data'[n] = data[n]
             /\ inactive'[n] \/ HandleSimRecover(n)
             /\ (req' # req /\ req'.at = n /\ req'.status # 0) =>
                   IF req'.path = "/sim-recover"
                   THEN req'.status = 200 /\ ~inactive'[n]
                   ELSE req'.status = 503 /\ inactive'[n]]_vars

\* An inactive node has refused a storage PUT that another node forwarded
\* to it.
C9_Witness ==
    \E n \in nodes :
        /\ inactive[n]
        /\ req.path = "/storage" /\ req.method = "PUT"
        /\ req.at = n /\ req.entry # n
        /\ req.status = 503

\* C10: while node n is inactive no step of its maintenance goroutine
\* changes a successor, a predecessor or a finger, and its finger index
\* does not advance, also when the tick had started before the node
\* became inactive.
C10_InactiveMaintenanceIdle ==
    [][\A n \in nodes :
          (inactive[n] /\ Maintenance(n)) =>
             UNCHANGED <<successor, predecessor, finger, nextFingerIndex>>]_vars

----------------------------------------------------------------------------
\* SpecChurn: the bootstrapped ring of a and b under a finite number of
\* joins, leaves, crashes and recoveries, with the maintenance of every node
\* scheduled fairly.

InitChurn ==
    /\ Bootstrapped(CrashNodes)
    /\ Quiet(CrashNodes, <<>>)

NextChurn ==
    \/ \E n \in nodes : RunMaintenance(n)
    \/ \E n \in nodes : Stabilize(n)
    \/ \E n \in nodes : StabilizeProbe(n)
    \/ \E n \in nodes : StabilizeNotify(n)
    \/ \E n \in nodes : FixFinger(n)
    \/ \E n \in nodes : HandleSimCrash(n)
    \/ \E n \in nodes : HandleSimRecover(n)
    \/ \E n \in nodes : HandleLeave(n)
    \/ \E n \in nodes, nprime \in nodes : HandleJoin(n, nprime)

SpecChurn == InitChurn /\ [][NextChurn]_vars /\ FairMaintenance

\* The live nodes form one cycle in id order, every live node is the
\* predecessor of its successor, and every finger of a live node targets the
\* first live node at or after its start.
Converged ==
    \A n \in Live :
        /\ successor[n].address = NextMember(Live, n)
        /\ predecessor[successor[n].address] = SelfNode(n)
        /\ \A i \in FingerIdx :
              finger[n][i].node.address =
                 FirstMemberAtOrAfter(Live, FingerStart(SelfId(n), i))

\* C3: after a finite number of joins, leaves, crashes and recoveries, with
\* every live node running its ticks, the ring eventually is and stays
\* converged.
C3_EventuallyConverged == <>[]Converged

----------------------------------------------------------------------------
\* SpecRecover: the bootstrapped ring of a and b, in which one of the nodes
\* may already have been crashed before the first tick; nodes are crashed
\* and recovered while the maintenance goroutines run.

InitRecover ==
    /\ BootstrappedState(CrashNodes)
    /\ Waiting(CrashNodes, <<>>)
    /\ call = NoCall
    /\ NoHandlerThreads
    /\ \E down \in SUBSET CrashNodes :
          /\ Cardinality(down) <= 1
          /\ inactive = [n \in CrashNodes |-> n \in down]
          /\ atCrash = [n \in CrashNodes |->
                           IF n \in down THEN <<Snapshot(n)>> ELSE NoSnapshot]

NextRecover ==
    \/ \E n \in nodes : RunMaintenance(n)
    \/ \E n \in nodes : Stabilize(n)
    \/ \E n \in nodes : StabilizeProbe(n)
    \/ \E n \in nodes : StabilizeNotify(n)
    \/ \E n \in nodes : FixFinger(n)
    \/ \E n \in nodes : HandleSimCrash(n)
    \/ \E n \in nodes : HandleSimRecover(n)

SpecRecover == InitRecover /\ [][NextRecover]_vars

\* C11: when POST /sim-recover is served on a crashed node, the node's
\* successor, predecessor, finger table and data are what they were when it
\* was crashed, and the node is active again.
C11_RecoverRestoresState ==
    [][\A n \in nodes :
          (inactive[n] /\ atCrash[n] # NoSnapshot /\ HandleSimRecover(n)) =>
             /\ ~inactive'[n]
             /\ successor'[n] = atCrash[n][1].successor
             /\ predecessor'[n] = atCrash[n][1].predecessor
             /\ finger'[n] = atCrash[n][1].finger
             /\ data'[n] = atCrash[n][1].data]_vars

Crashed(x) == x \in nodes /\ inactive[x] /\ atCrash[x] # NoSnapshot

NoFingerTargets(x) ==
    \A n \in Live : \A i \in FingerIdx : finger[n][i].node.address # x

\* C12: once a node has crashed and stays crashed, every live node, whose
\* maintenance keeps ticking, eventually holds no finger that targets the
\* crashed node, and this stays so; stated for the two-node ring as well.
C12_CrashedNodeLeavesFingers ==
    \A x \in CrashNodes : <>[]Crashed(x) => <>[]NoFingerTargets(x)

\* GET /network on node n with the given origin: the handler answers its own
\* address followed by what its successor answers to the same request, unless
\* the successor is the origin.  A successor that refuses (503) or cannot be
\* decoded contributes nothing.  The forwarding has no deadline: a walk that
\* never comes back to the origin never answers, which hops = 0 stands for.
RECURSIVE NetworkWalk(_, _, _)
NetworkWalk(n, origin, hops) ==
    LET succAdr == successor[n].address
    IN  IF succAdr = origin THEN [answered |-> TRUE, list |-> <<n>>]
        ELSE IF ~(succAdr \in nodes /\ Served(succAdr, "/network"))
             THEN [answered |-> TRUE, list |-> <<n>>]
        ELSE IF hops = 0 THEN [answered |-> FALSE, list |-> <<>>]
        ELSE LET rest == NetworkWalk(succAdr, origin, hops - 1)
             IN  [answered |-> rest.answered,
                  list |-> IF rest.answered THEN <<n>> \o rest.list ELSE <<>>]

\* GET /network sent by a client to node n (no origin parameter).
HandleNetworkGet(n) == NetworkWalk(n, n, Cardinality(nodes))

\* The walk from n answered, and its list holds exactly the addresses of T,
\* each once.
NetworkReturns(n, T) ==
    LET r == HandleNetworkGet(n)
    IN  /\ r.answered
        /\ Len(r.list) = Cardinality(T)
        /\ {r.list[i] : i \in 1..Len(r.list)} = T

\* Node x has left through POST /leave, and that is the only membership
\* event so far.
OnlyLeft(x) ==
    /\ x \in nodes /\ inactive[x] /\ atCrash[x] = NoSnapshot
    /\ nevents = 1

\* The remaining nodes are linked to each other and none refers to x.
Relinked(x) ==
    \A n \in Live :
        /\ predecessor[successor[n].address] = SelfNode(n)
        /\ successor[n].address # x
        /\ predecessor[n].address # x
        /\ NetworkReturns(n, Live)

\* C13: in a stabilized ring of two or more nodes, after POST /leave on a
\* node and no other membership event, the ticks of the remaining nodes lead
\* to successor.predecessor = self on each of them, none of them keeps the
\* node that left as successor or predecessor, and GET /network on each of
\* them returns exactly the remaining nodes.
C13_LeaveRelinksRing ==
    \A x \in CrashNodes : <>[]OnlyLeft(x) => <>[]Relinked(x)

\* POST /leave has completed on n and n has not been recovered since.
Left(n) == n \in nodes /\ inactive[n] /\ atCrash[n] = NoSnapshot

\* The state resetToStartingState gives a node.
StartingState(n) ==
    /\ successor[n] = SelfNode(n)
    /\ predecessor[n] = EmptyNode
    /\ \A i \in FingerIdx : finger[n][i].node = SelfNode(n)

\* C14: once POST /leave has completed on a node, the node is inactive and
\* its state is the single-node starting state (successor self, predecessor
\* empty, every finger on self), also when a maintenance tick of that node
\* was in progress while it left.
C14_LeftNodeStaysReset == \A n \in nodes : Left(n) => StartingState(n)

\* A relink call of Leave on n fails: the successor does not serve
\* POST /predecessor, or the predecessor does not serve PUT /successor.
RelinkFails(n) ==
    \/ successor[n].address # "" /\ ~Served(successor[n].address, "/predecessor")
    \/ predecessor[n].address # "" /\ ~Served(predecessor[n].address, "/successor")

\* C15: during a graceful leave a set-predecessor or set-successor call that
\* fails is retried; the leaving node does not reset itself and go inactive
\* while a neighbour has not acknowledged the relink.
C15_LeaveWaitsForNeighbours ==
    [][\A n \in nodes :
          (Served(n, "/leave") /\ RelinkFails(n) /\ HandleLeave(n)) =>
             /\ ~inactive'[n]
             /\ successor'[n] = successor[n]
             /\ predecessor'[n] = predecessor[n]]_vars

\* C16: after a successful POST /join?nprime=seed the node's predecessor is
\* empty and its successor is the address the seed answered for
\* findSuccessor(self.id), whatever the predecessor was before.
C16_JoinClearsPredecessor ==
    [][\A n \in nodes : \A nprime \in nodes :
          (HandleJoin(n, nprime) /\ req'.status = 200) =>
             /\ predecessor'[n] = EmptyNode
             /\ successor'[n].address = TransportFindSuccessor(nprime, SelfId(n), 0)]_vars

\* C17: at quiescence GET /network sent to any live node returns the address
\* of each live node exactly once, hence the same collection of addresses
\* from any two live nodes.
C17_NetworkListsLiveNodes ==
    Quiescent => \A n \in Live : NetworkReturns(n, Live)

\* C18: in a stable ring a GET for a key that was never PUT is answered 404,
\* whichever node receives it: the owner answers 404 and every forwarding
\* node passes that answer back.
C18_MissingKeyIsNotFound ==
    (StorageDone /\ req.method = "GET" /\ acked[req.key] = NoValue)
       => req.status = 404

\* A GET for a key never PUT entered at a node other than the owner, was
\* forwarded, and came back 404.
C18_Witness ==
    /\ StorageDone /\ req.method = "GET" /\ acked[req.key] = NoValue
    /\ req.hops > 0 /\ req.entry # req.at
    /\ req.status = 404

InitPutTwice ==
    \E S \in SUBSET Addresses :
        /\ S # {}
        /\ Bootstrapped(S)
        /\ Quiet(S, <<"PUT", "PUT", "GET">>)

NextPutTwice ==
    \/ \E n \in nodes : RunMaintenance(n)
    \/ \E n \in nodes : Stabilize(n)
    \/ \E n \in nodes : StabilizeProbe(n)
    \/ \E n \in nodes : StabilizeNotify(n)
    \/ \E n \in nodes : FixFinger(n)
    \/ \E n \in nodes, k \in Keys, v \in Values :
          /\ nreq = 0
          /\ ClientStorage(n, "PUT", k, v)
    \/ \E n \in nodes :
          /\ nreq = 1
          /\ ClientStorage(n, "PUT", req.key, req.value)
    \/ \E n \in nodes, k \in Keys : ClientStorage(n, "GET", k, "")
    \/ HandleStorage

SpecPutTwice == InitPutTwice /\ [][NextPutTwice]_vars

\* The nodes whose map has an entry for key k.
Holders(k) == {n \in nodes : data[n][k] # NoValue}

\* C20: PUT(k, v) sent twice, through the same node or through different
\* nodes, followed by GET(k), yields v, and the map of the owner holds one
\* entry for k, which no other node holds.
C20_RepeatedPutIsIdempotent ==
    (nreq >= 2 /\ StorageDone) =>
       /\ req.status \in {200, 404}
       /\ \A k \in Keys :
             acked[k] # NoValue =>
                /\ Cardinality(Holders(k)) = 1
                /\ \A n \in Holders(k) :
                      /\ Owns(n, KeyToRingId(k, ID_SPACE_SIZE))
                      /\ data[n][k] = acked[k]
       /\ (req.method = "GET" /\ acked[req.key] # NoValue) =>
             (req.status = 200 /\ req.body = acked[req.key])

\* Both PUTs were answered, and the GET that followed was forwarded and
\* answered the value, held by one node.
C20_Witness ==
    /\ nreq = 3 /\ StorageDone
    /\ req.method = "GET" /\ req.status = 200
    /\ req.body = acked[req.key]
    /\ req.hops > 0
    /\ Cardinality(Holders(req.key)) = 1

----------------------------------------------------------------------------
\* SpecInterval: the three interval helpers called directly, on every triple
\* of ring points.

\* The number of points of the ring the helpers are exercised on.
RingSize == 16

RingPoints == 0 .. (RingSize - 1)

InitInterval ==
    /\ Created({})
    /\ Waiting({}, <<>>)
    /\ atCrash = [n \in {} |-> NoSnapshot]
    /\ NoHandlerThreads
    /\ \E x \in RingPoints, a \in RingPoints, b \in RingPoints :
          call = [fn |-> "", x |-> x, a |-> a, b |-> b, result |-> FALSE]

\* One direct call of a helper on the arguments drawn.
CallInterval(fn, result) ==
    /\ call.fn = ""
    /\ call' = [call EXCEPT !.fn = fn, !.result = result]
    /\ UNCHANGED <<nodes, successor, predecessor, finger, data, inactive,
                   mpc, nextFingerIndex, cands, ci, liveCand, req, acked, script,
                   nreq, nevents, visited, atCrash, mu, thr>>

NextInterval ==
    \/ CallInterval("InIntervalOpen", InIntervalOpen(call.x, call.a, call.b))
    \/ CallInterval("InIntervalLeftInclusive",
                    InIntervalLeftInclusive(call.x, call.a, call.b))
    \/ CallInterval("InIntervalRightInclusive",
                    InIntervalRightInclusive(call.x, call.a, call.b))

SpecInterval == InitInterval /\ [][NextInterval]_vars

\* The number of clockwise steps from a to b; a whole turn when a = b.
ClockwiseSteps(a, b) == IF a = b THEN RingSize ELSE (b - a + RingSize) % RingSize

\* The points reached from a in first .. last clockwise steps.
ClockwiseWalk(a, first, last) == {(a + d) % RingSize : d \in first .. last}

----------------------------------------------------------------------------
\* SpecSuccessorCrash: three processes, of which two or three form a
\* bootstrapped ring and the others are newly created; one of the three has
\* been crashed and stays so.  PUT /network with the three addresses is sent
\* to single nodes, and the ticker of every live node keeps firing.

\* Three processes: those of some S form a bootstrapped ring, the others are
\* newly created, and one of the three has been crashed.
RingWithOneDown(todo) ==
    /\ nodes = Addresses
    /\ \E S \in SUBSET Addresses :
          /\ Cardinality(S) >= 2
          /\ successor = [n \in Addresses |->
                IF n \in S THEN SetSuccessorOp(NetworkSuccessor(n, SortById(S)))
                ELSE SelfNode(n)]
          /\ predecessor = [n \in Addresses |->
                IF n \in S
                THEN SetPredecessorOp(n, EmptyNode, NetworkPredecessor(n, SortById(S)))
                ELSE EmptyNode]
          /\ finger = [n \in Addresses |->
                IF n \in S THEN NetworkFinger(n, SortById(S)) ELSE CreateFinger(n)]
    /\ data = [n \in Addresses |-> [k \in Keys |-> NoValue]]
    /\ Waiting(Addresses, todo)
    /\ call = NoCall
    /\ NoHandlerThreads
    /\ \E down \in Addresses :
          /\ inactive = [n \in Addresses |-> n = down]
          /\ atCrash = [n \in Addresses |->
                           IF n = down THEN <<Snapshot(n)>> ELSE NoSnapshot]

InitSuccessorCrash == RingWithOneDown(<<>>)

NextSuccessorCrash ==
    \/ \E n \in nodes : RunMaintenance(n)
    \/ \E n \in nodes : Stabilize(n)
    \/ \E n \in nodes : StabilizeProbe(n)
    \/ \E n \in nodes : StabilizeNotify(n)
    \/ \E n \in nodes : FixFinger(n)
    \/ \E n \in nodes : nevents = 0 /\ HandleNetworkPut(n, nodes)

SpecSuccessorCrash ==
    InitSuccessorCrash /\ [][NextSuccessorCrash]_vars /\ FairMaintenance

\* Node n is live, its successor x is crashed, and some finger of n targets a
\* live node other than n.
SuccessorCrashed(n, x) ==
    /\ ~inactive[n]
    /\ successor[n].address = x
    /\ Crashed(x)
    /\ \E i \in FingerIdx :
          /\ finger[n][i].node.address \notin {n, x}
          /\ ~inactive[finger[n][i].node.address]

\* Node n is live and its successor x is crashed.
KeepsCrashedSuccessor(n, x) ==
    ~inactive[n] /\ successor[n].address = x /\ Crashed(x)

\* C22: a node whose successor has crashed and stays crashed, while a finger
\* of the node targets another live node, does not keep the crashed node as
\* successor for ever: after finitely many stabilize rounds its successor is
\* another node, whatever predecessor the answering candidate reports.
\* Stated for every live node at once, with or without such a finger: again
\* and again no live node has a crashed successor.
C22_CrashedSuccessorIsReplaced ==
    []<>(\A n \in Addresses : \A x \in Addresses \ {n} : ~KeepsCrashedSuccessor(n, x))

\* The node probes its live finger target after its crashed successor, and
\* the target is about to report the node itself as its predecessor.
C22_Witness ==
    \E n \in Addresses : \E x \in Addresses \ {n} :
        /\ SuccessorCrashed(n, x)
        /\ mpc[n] = "probe"
        /\ Len(cands[n]) = 2 /\ ci[n] = 2
        /\ cands[n][1] = x
        /\ ~inactive[cands[n][2]]
        /\ predecessor[cands[n][2]].address = n

\* The successor of n followed by its finger targets, in finger order.
SuccessorThenFingers(n) ==
    [i \in 1 .. (M + 1) |->
        IF i = 1 THEN successor[n].address ELSE finger[n][i - 2].node.address]

\* The positions of SuccessorThenFingers(n) that hold an address other than n
\* for the first time.
FirstOccurrences(n) ==
    LET raw == SuccessorThenFingers(n)
    IN  {i \in 1 .. (M + 1) : raw[i] # n /\ \A j \in 1 .. (i - 1) : raw[j] # raw[i]}

\* The reply node n gets from the candidate it is about to probe.
ProbedCandidate(n) == cands[n][ci[n]]

ProbeFails(n) == ProbedCandidate(n) \notin nodes \/ inactive[ProbedCandidate(n)]

ProbeReply(n) == predecessor[ProbedCandidate(n)].address

\* C23: Stabilize of a node whose successor is another node probes the
\* successor first, then each distinct finger target other than itself in
\* finger order, one at a time.  A getPredecessor failure moves on to the next
\* candidate; a reply naming the node itself ends the round with the successor
\* unchanged; an empty reply makes the candidate the successor and ends the
\* round; any other reply p within (self.id, successor.id) makes p the
\* successor and ends the round.
C23_StabilizeProbesInOrder ==
    [][\A n \in nodes :
          /\ (Stabilize(n) /\ successor[n].address # n) =>
                /\ mpc'[n] = "probe" /\ ci'[n] = 1
                /\ Len(cands'[n]) = Cardinality(FirstOccurrences(n))
                /\ \A k \in 1 .. Len(cands'[n]) :
                      \E i \in FirstOccurrences(n) :
                          /\ Cardinality({j \in FirstOccurrences(n) : j <= i}) = k
                          /\ cands'[n][k] = SuccessorThenFingers(n)[i]
          /\ (StabilizeProbe(n) /\ ProbeFails(n) /\ ci[n] < Len(cands[n])) =>
                /\ mpc'[n] = "probe" /\ ci'[n] = ci[n] + 1
                /\ cands'[n] = cands[n]
                /\ successor'[n] = successor[n]
          /\ (StabilizeProbe(n) /\ ~ProbeFails(n) /\ ProbeReply(n) = n) =>
                /\ mpc'[n] # "probe"
                /\ successor'[n] = successor[n]
          /\ (StabilizeProbe(n) /\ ~ProbeFails(n) /\ ProbeReply(n) = "") =>
                /\ mpc'[n] # "probe"
                /\ successor'[n].address = ProbedCandidate(n)
          /\ (StabilizeProbe(n) /\ ~ProbeFails(n) /\ ProbeReply(n) \notin {"", n}
                 /\ InIntervalOpen(KeyToRingId(ProbeReply(n), ID_SPACE_SIZE),
                                   SelfId(n), successor[n].id)) =>
                /\ mpc'[n] # "probe"
                /\ successor'[n].address = ProbeReply(n)]_vars

\* A candidate is about to answer a predecessor that lies between the node
\* and its successor.
C23_Witness ==
    \E n \in nodes :
        /\ mpc[n] = "probe"
        /\ ~ProbeFails(n)
        /\ ProbeReply(n) \notin {"", n}
        /\ InIntervalOpen(KeyToRingId(ProbeReply(n), ID_SPACE_SIZE),
                          SelfId(n), successor[n].id)

\* The last candidate of the round of n is about to fail, and none before it
\* has answered.
AllCandidatesFail(n) ==
    /\ mpc[n] = "probe"
    /\ ci[n] = Len(cands[n])
    /\ ProbeFails(n)
    /\ ~liveCand[n]

\* C24: when every candidate of a stabilize round fails to answer
\* getPredecessor, the node sets its successor to itself and sends no notify
\* in that round; when the round ends with another node as successor, one
\* notify(self.address) is sent to that node, and a notify that fails changes
\* no state.
C24_FallbackAndNotify ==
    [][\A n \in nodes :
          /\ (AllCandidatesFail(n) /\ StabilizeProbe(n)) =>
                /\ successor'[n] = SelfNode(n)
                /\ mpc'[n] = "fixfinger"
                /\ predecessor' = predecessor
          /\ ((Stabilize(n) \/ StabilizeProbe(n)) /\ mpc'[n] # "probe") =>
                (mpc'[n] = "notify") = (successor'[n].address # n)
          /\ StabilizeNotify(n) =>
                LET succAddr == successor[n].address
                IN  /\ mpc'[n] = "fixfinger"
                    /\ succAddr # n
                    /\ predecessor' =
                          IF succAddr \in nodes /\ ~inactive[succAddr]
                          THEN [predecessor EXCEPT ![succAddr] = NotifyOp(succAddr, n)]
                          ELSE predecessor
                    /\ successor' = successor /\ finger' = finger /\ data' = data
                    /\ inactive' = inactive]_vars

\* Every candidate of the round of a live node has failed but the last,
\* which is about to fail.
C24_Witness ==
    \E n \in nodes : AllCandidatesFail(n) /\ Len(cands[n]) >= 1 /\ ~inactive[n]

----------------------------------------------------------------------------
\* SpecPredecessorRpc: rings of one to three bootstrapped nodes that receive
\* the two predecessor RPCs, notify and set-predecessor, with any address,
\* and POST /leave.

InitPredecessorRpc ==
    \E S \in SUBSET Addresses :
        /\ S # {}
        /\ Bootstrapped(S)
        /\ Quiet(S, <<>>)

NextPredecessorRpc ==
    \/ \E n \in nodes, s \in PeerAddresses : HandlePredecessorPut(n, s)
    \/ \E n \in nodes, addr \in PeerAddresses : HandlePredecessorPost(n, addr)
    \/ \E n \in nodes : HandleLeave(n)

SpecPredecessorRpc == InitPredecessorRpc /\ [][NextPredecessorRpc]_vars

\* C25: notify(s) on node n replaces the predecessor of n by s exactly when s
\* is not empty, is not the address of n, and the predecessor of n is empty or
\* the id of s lies in (predecessor.id, self.id]; in every other case the
\* predecessor stays, and notify never changes successor, fingers or data.
C25_NotifyAcceptsExactly ==
    [][\A n \in nodes : \A s \in PeerAddresses :
          (~inactive[n] /\ HandlePredecessorPut(n, s)) =>
             /\ predecessor'[n] =
                   IF /\ s # ""
                      /\ s # n
                      /\ \/ predecessor[n].address = ""
                         \/ InIntervalRightInclusive(KeyToRingId(s, ID_SPACE_SIZE),
                                                     predecessor[n].id, SelfId(n))
                   THEN MkNode(s)
                   ELSE predecessor[n]
             /\ successor' = successor /\ finger' = finger /\ data' = data]_vars

\* Leave of x asks its successor to take an address that hashes to the
\* successor's own id, while the successor has a predecessor.
LeaveNamesSuccessorItself(x) ==
    LET succAddr == successor[x].address
    IN  /\ ~inactive[x]
        /\ succAddr \in nodes \ {x}
        /\ ~inactive[succAddr]
        /\ predecessor[x].address # ""
        /\ KeyToRingId(predecessor[x].address, ID_SPACE_SIZE) = SelfId(succAddr)
        /\ predecessor[succAddr].address # ""

----------------------------------------------------------------------------
\* SpecLookup: three processes, some in a bootstrapped ring, one crashed;
\* nodes are crashed, bootstrapped and joined, and a client asks one node for
\* the successor of a key id.

RingIds == 0 .. (ID_SPACE_SIZE - 1)

InitLookup == RingWithOneDown(<<"GET">>)

NextLookup ==
    \/ \E n \in nodes : HandleSimCrash(n)
    \/ \E n \in nodes : HandleNetworkPut(n, nodes)
    \/ \E n \in nodes : \E nprime \in nodes \ {n} : HandleJoin(n, nprime)
    \/ \E n \in nodes, keyId \in RingIds : HandleSuccessorGet(n, keyId)

SpecLookup == InitLookup /\ [][NextLookup]_vars

\* The candidate answers the find-successor call of a caller that is not
\* itself serving one.
RemoteAnswers(candidate, keyId) ==
    /\ candidate \in nodes
    /\ ~inactive[candidate]
    /\ TransportFindSuccessor(candidate, keyId, 0) \notin {RpcError, RpcTimeout}

FingersThenSuccessor(n, keyId) ==
    PrecedingFrom(n, keyId, M - 1) \o <<successor[n].address>>

\* C28: the candidates that findSuccessor(k) goes through are the finger
\* targets with an id in (self.id, k), from index M-1 down to 0, followed by
\* the successor of the node as the last element.
C28_CandidatesEndWithSuccessor ==
    [][\A n \in nodes : \A k \in RingIds :
          (~inactive[n] /\ HandleSuccessorGet(n, k)
             /\ ~InIntervalRightInclusive(k, SelfId(n), successor[n].id))
          => closestPrecedingNodes(n, k) = FingersThenSuccessor(n, k)]_vars

----------------------------------------------------------------------------
\* Finger repair.

\* What the lookup of FixFinger(nextFingerIndex) on n returns.
FingerLookup(n) == FindSuccessor(n, finger[n][nextFingerIndex[n]].start).addr

\* The target of the finger that FixFinger on n is about to repair.
FingerTarget(n) == finger[n][nextFingerIndex[n]].node.address

\* C29: when the lookup of fixFinger(i) returns an address other than the
\* node itself and the current target of finger i, that address becomes the
\* target of finger i; when it returns the node itself or the current target,
\* no finger changes; no other finger, nor the successor, nor the predecessor
\* of the node changes.
C29_FixFingerTouchesOneFinger ==
    [][\A n \in nodes :
          FixFinger(n) =>
             LET i == nextFingerIndex[n]
                 found == FingerLookup(n)
             IN  /\ found \notin {n, FingerTarget(n)}
                       => finger'[n][i].node = MkNode(found)
                 /\ found \in {n, FingerTarget(n)} => finger'[n] = finger[n]
                 /\ finger'[n][i].start = finger[n][i].start
                 /\ \A j \in FingerIdx \ {i} : finger'[n][j] = finger[n][j]
                 /\ successor'[n] = successor[n]
                 /\ predecessor'[n] = predecessor[n]]_vars

\* A node about to repair a finger that points elsewhere than itself, with a
\* lookup that returns a third address.
C29_Witness ==
    \E n \in nodes :
        /\ mpc[n] = "fixfinger"
        /\ ~inactive[n]
        /\ FingerTarget(n) # n
        /\ FingerLookup(n) \notin {n, FingerTarget(n)}

\* The lookup of FixFinger on n has to ask its candidates and none of them
\* answers: the outcome that Node.FindSuccessor logs as "all candidates
\* failed".
FingerLookupFails(n) ==
    LET start == finger[n][nextFingerIndex[n]].start
        cs == closestPrecedingNodes(n, start)
    IN  /\ ~InIntervalRightInclusive(start, SelfId(n), successor[n].id)
        /\ cs # <<>>
        /\ \A j \in 1 .. Len(cs) : ~RemoteAnswers(cs[j], start)

----------------------------------------------------------------------------
\* The maintenance tick.

\* The host at address p answers GET /ping with 200: it runs a node and the
\* node is active.
PingAnswers200(p) == p \in nodes /\ ~inactive[p]

\* A step of the tick of n that comes after CheckPredecessor.
RestOfTick(n) ==
    Stabilize(n) \/ StabilizeProbe(n) \/ StabilizeNotify(n) \/ FixFinger(n)

TickOrder ==
    { <<"idle", "stabilize">>,
      <<"stabilize", "probe">>, <<"stabilize", "notify">>, <<"stabilize", "fixfinger">>,
      <<"probe", "notify">>, <<"probe", "fixfinger">>,
      <<"notify", "fixfinger">>,
      <<"fixfinger", "idle">> }

\* This step ends a tick of n.
TickEnds(n) == mpc[n] = "fixfinger" /\ mpc'[n] = "idle"

\* C32: a tick starts only on an active node and runs check-predecessor,
\* stabilize and fix-finger in that order, one after the other; the finger
\* index starts at 0, moves only at the end of a tick, by one modulo M, and
\* the tick repairs no other finger than the one at the index.
C32_TickOrderAndRoundRobin ==
    /\ \A n \in nodes : mpc[n] = "idle" /\ nextFingerIndex[n] = 0
    /\ [][\A n \in nodes :
             /\ mpc'[n] # mpc[n] => <<mpc[n], mpc'[n]>> \in TickOrder
             /\ (mpc[n] = "idle" /\ mpc'[n] # "idle") => ~inactive[n]
             /\ IF TickEnds(n)
                THEN /\ nextFingerIndex'[n] = (nextFingerIndex[n] + 1) % M
                     /\ \A j \in FingerIdx \ {nextFingerIndex[n]} :
                            finger'[n][j] = finger[n][j]
                ELSE nextFingerIndex'[n] = nextFingerIndex[n]]_vars

\* A node in its M-th tick, about to repair the last finger.
C32_Witness ==
    \E n \in nodes :
        /\ mpc[n] = "fixfinger"
        /\ nextFingerIndex[n] = M - 1

----------------------------------------------------------------------------
\* Shape of the routing state.

\* C33: in every state, finger i of a node starts at (self.id + 2^i) mod 2^M:
\* bootstrap, fix-finger, leave and recover keep the starts set at creation.
C33_FingerStartsAreFixed ==
    \A n \in nodes : \A i \in FingerIdx :
        finger[n][i].start = (SelfId(n) + 2 ^ i) % (2 ^ M)

----------------------------------------------------------------------------
\* SpecHandlers: two HTTP handler goroutines on one node, followed statement
\* by statement.  net/http serves every request on a goroutine of its own;
\* the handlers meet in Node.mu.  A handler runs Node.Notify (PUT
\* /predecessor), Node.SetPredecessor (POST /predecessor) or Node.Put (PUT
\* /storage/key).  The getters and the setters take the lock; the statements
\* that read the fields directly do not.

Handlers == {"h1", "h2"}

\* First statement of each handler body.
EntryPoint(op) ==
    IF op = "notify" THEN "getter" ELSE IF op = "setpred" THEN "lock" ELSE "put"

\* A handler goroutine about to run op(arg) on node n.  cur is Notify's
\* currentPredecessorAddr; was is history: the predecessor of the node when
\* the handler was entered.
Handler(n, op, arg) ==
    [node |-> n, op |-> op, arg |-> arg, pc |-> EntryPoint(op), cur |-> "",
     was |-> predecessor[n]]

InitHandlers ==
    /\ \E S \in SUBSET Addresses :
          /\ S # {}
          /\ Bootstrapped(S) \/ Created(S)
    /\ Waiting(nodes, <<>>)
    /\ atCrash = [n \in nodes |-> NoSnapshot]
    /\ call = NoCall
    /\ mu = [n \in Addresses |-> NoHolder]
    /\ \E n \in nodes :
          thr \in [Handlers ->
                     {Handler(n, "notify", s) : s \in PeerAddresses}
                     \cup {Handler(n, "setpred", s) : s \in PeerAddresses}
                     \cup {Handler(n, "put", k) : k \in Keys}]

\* What a handler step leaves alone, besides what it names.
handlerFrame ==
    <<nodes, successor, finger, inactive, mpc, nextFingerIndex, cands, ci, liveCand,
      req, acked, script, nreq, nevents, visited, atCrash, call>>

\* Notify, first statement: n.Predecessor(), a getter, under RLock.
NotifyGetter(t) ==
    LET n == thr[t].node
    IN  /\ thr[t].pc = "getter"
        /\ mu[n] = NoHolder
        /\ thr' = [thr EXCEPT ![t].cur = predecessor[n].address, ![t].pc = "check"]
        /\ UNCHANGED <<predecessor, data, mu>>
        /\ UNCHANGED handlerFrame

\* Notify, the two tests: n.Address() is a getter of a field that is never
\* written; n.predecessor.id and n.id are read without the lock.
NotifyCheck(t) ==
    LET n == thr[t].node
        s == thr[t].arg
        accepted ==
            /\ s # "" /\ s # n
            /\ \/ thr[t].cur = ""
               \/ InIntervalRightInclusive(KeyToRingId(s, ID_SPACE_SIZE),
                                           predecessor[n].id, SelfId(n))
    IN  /\ thr[t].pc = "check"
        /\ thr' = [thr EXCEPT ![t].pc = IF accepted THEN "lock" ELSE "done"]
        /\ UNCHANGED <<predecessor, data, mu>>
        /\ UNCHANGED handlerFrame

\* SetPredecessor: n.mu.Lock()
LockMu(t) ==
    LET n == thr[t].node
    IN  /\ thr[t].pc = "lock"
        /\ mu[n] = NoHolder
        /\ mu' = [mu EXCEPT ![n] = t]
        /\ thr' = [thr EXCEPT ![t].pc = "write"]
        /\ UNCHANGED <<predecessor, data>>
        /\ UNCHANGED handlerFrame

\* SetPredecessor: the body, under the lock.
WritePredecessor(t) ==
    LET n == thr[t].node
    IN  /\ thr[t].pc = "write"
        /\ predecessor' = [predecessor EXCEPT
                              ![n] = SetPredecessorOp(n, predecessor[n], thr[t].arg)]
        /\ thr' = [thr EXCEPT ![t].pc = "unlock"]
        /\ UNCHANGED <<data, mu>>
        /\ UNCHANGED handlerFrame

\* SetPredecessor: the deferred n.mu.Unlock()
UnlockMu(t) ==
    LET n == thr[t].node
    IN  /\ thr[t].pc = "unlock"
        /\ mu' = [mu EXCEPT ![n] = NoHolder]
        /\ thr' = [thr EXCEPT ![t].pc = "done"]
        /\ UNCHANGED <<predecessor, data>>
        /\ UNCHANGED handlerFrame

\* Node.Put: the ownership test reads n.predecessor.id and n.id without the
\* lock; the store goes to the sync.Map.
PutUnlocked(t) ==
    LET n == thr[t].node
    IN  /\ thr[t].pc = "put"
        /\ data' = IF Put(n, thr[t].arg) = "" THEN Store(n, thr[t].arg, "v1") ELSE data
        /\ thr' = [thr EXCEPT ![t].pc = "done"]
        /\ UNCHANGED <<predecessor, mu>>
        /\ UNCHANGED handlerFrame

NextHandlers ==
    \/ \E t \in Handlers : NotifyGetter(t)
    \/ \E t \in Handlers : NotifyCheck(t)
    \/ \E t \in Handlers : LockMu(t)
    \/ \E t \in Handlers : WritePredecessor(t)
    \/ \E t \in Handlers : UnlockMu(t)
    \/ \E t \in Handlers : PutUnlocked(t)

SpecHandlers == InitHandlers /\ [][NextHandlers]_vars

\* The statement that the handler runs next reads successor, predecessor or
\* a finger of the node.
ReadsRoutingState(t) == thr[t].pc \in {"getter", "check", "put"}

\* C34: every read of the routing state of a node is made under the read
\* side of the node's lock, and every write under the write side: no handler
\* reads the routing state while another one holds the write side, and the
\* predecessor changes only in a step of the holder.
C34_ReadsHoldTheLock ==
    [][\A t \in Handlers :
          /\ (ReadsRoutingState(t) /\ thr'[t].pc # thr[t].pc)
                => mu[thr[t].node] = NoHolder
          /\ (thr[t].pc = "write" /\ thr'[t].pc # "write")
                => mu[thr[t].node] = t]_vars

\* Steps from id clockwise to the id of node n: 0 when the ids are equal.
StepsToSelf(n, id) == (SelfId(n) - id + ID_SPACE_SIZE) % ID_SPACE_SIZE

\* Both handlers run notify on the same node, with A the suggestion of the
\* first and B the suggestion of the second, both in (predecessor.id,
\* self.id] when the calls start, and B closer to the node than A.
TwoNotifies(tA, tB) ==
    LET n == thr[tA].node
        A == thr[tA].arg
        B == thr[tB].arg
        idA == KeyToRingId(A, ID_SPACE_SIZE)
        idB == KeyToRingId(B, ID_SPACE_SIZE)
    IN  /\ tA # tB
        /\ thr[tA].op = "notify" /\ thr[tB].op = "notify"
        /\ A \notin {"", n} /\ B \notin {"", n}
        /\ InIntervalRightInclusive(idA, thr[tA].was.id, SelfId(n))
        /\ InIntervalRightInclusive(idB, thr[tB].was.id, SelfId(n))
        /\ StepsToSelf(n, idB) < StepsToSelf(n, idA)

\* C35: when two notify calls with suggestions A and B run concurrently on a
\* node, both in (predecessor.id, self.id] and B closer to the node than A, the
\* predecessor is B once both have finished, whatever the interleaving; and no
\* notify moves a predecessor farther from the node than it was.
C35_CloserNotifyWins ==
    /\ [](\A tA \in Handlers : \A tB \in Handlers :
             (TwoNotifies(tA, tB) /\ thr[tA].pc = "done" /\ thr[tB].pc = "done")
             => predecessor[thr[tA].node].address = thr[tB].arg)
    /\ [][\A t \in Handlers :
             LET n == thr[t].node
             IN  (thr[t].op = "notify" /\ WritePredecessor(t)
                    /\ predecessor[n].address \notin {"", n})
                 => StepsToSelf(n, predecessor'[n].id)
                       <= StepsToSelf(n, predecessor[n].id)]_vars

----------------------------------------------------------------------------
\* C36: GET /network terminates in every reachable routing state: the walk
\* along the successors that starts at a live node ends after finitely many
\* hops, also when the origin is not on the cycle its successors lead into,
\* or when a node on the way is crashed or is its own successor.
C36_NetworkWalkTerminates ==
    \A n \in nodes : ~inactive[n] => HandleNetworkGet(n).answered

----------------------------------------------------------------------------
\* C37: when POST /join gets no successor from the seed (the seed is
\* unreachable or inactive, or its answer is an error), the handler answers
\* with a 5xx status and the successor, predecessor, fingers and data of the
\* node are as before the request.
C37_FailedJoinChangesNothing ==
    [][\A n \in nodes : \A nprime \in nodes \ {n} :
          (~inactive[n] /\ HandleJoin(n, nprime) /\ ~RemoteAnswers(nprime, SelfId(n)))
          => /\ req'.path = "/join"
             /\ req'.status \in 500 .. 599
             /\ successor'[n] = successor[n]
             /\ predecessor'[n] = predecessor[n]
             /\ finger'[n] = finger[n]
             /\ data'[n] = data[n]]_vars

\* A join through a crashed seed was answered 500.
C37_Witness ==
    /\ req.path = "/join"
    /\ req.status = 500
    /\ ~inactive[req.entry]
    /\ \E nprime \in nodes \ {req.entry} : inactive[nprime]

----------------------------------------------------------------------------
\* C38: the data of a node changes only when the node serves a PUT for a key
\* it owns, and then only by the entry of that key: maintenance, notify, the
\* setters, bootstrap, join, leave, crash and recovery leave it alone, a PUT
\* that is forwarded and a GET store nothing, and no entry is ever removed.
C38_OnlyOwnedPutChangesData ==
    [][\A n \in nodes :
          data'[n] # data[n]
          => /\ InFlight
             /\ req.path = "/storage" /\ req.method = "PUT" /\ req.at = n
             /\ ~inactive[n]
             /\ Owns(n, KeyToRingId(req.key, ID_SPACE_SIZE))
             /\ req'.status = 200
             /\ data'[n] = [data[n] EXCEPT ![req.key] = req.value]
             /\ data'[n][req.key] # NoValue]_vars

\* A node that stored a value, left and was recovered still holds the value.
C38_Witness ==
    \E n \in nodes : \E k \in Keys :
        /\ nevents = 2
        /\ ~inactive[n]
        /\ finger[n] = ResetFinger(n)
        /\ data[n][k] # NoValue

----------------------------------------------------------------------------
\* C39: every node reference a node stores is consistent: the id of the
\* successor and of every finger target is the hash of its address, a
\* non-empty predecessor has the hash of its address as id and an empty one
\* has id 0.
C39_ReferencesAreConsistent ==
    \A n \in nodes :
        /\ successor[n].id = KeyToRingId(successor[n].address, ID_SPACE_SIZE)
        /\ \A i \in FingerIdx :
              finger[n][i].node.id = KeyToRingId(finger[n][i].node.address, ID_SPACE_SIZE)
        /\ predecessor[n].address # ""
              => predecessor[n].id = KeyToRingId(predecessor[n].address, ID_SPACE_SIZE)
        /\ predecessor[n].address = "" => predecessor[n].id = 0

\* One node has left and was reset, the other has dropped it: its
\* predecessor is empty and it is its own successor.
C39_Witness ==
    \E n \in nodes : \E m \in nodes \ {n} :
        /\ finger[m] = ResetFinger(m)
        /\ predecessor[n] = EmptyNode
        /\ successor[n] = SelfNode(n)
        /\ ~inactive[n]

====
